---------------------------- MODULE Spec2Model ----------------------------
(***************************************************************************)
(* Model of styles_extraction/extract_pose.py: the batch script that runs  *)
(* reconstruction and global alignment on a directory of images, exports   *)
(* the per-view focal/pose table to poses.csv, computes the reciprocal     *)
(* 3D nearest-neighbour matches between view 0 and view 1, samples n_viz   *)
(* of them and draws them.                                                 *)
(*                                                                         *)
(* Conventions.  Arrays are sequences; the INDEX VALUES stored in the      *)
(* state (nn2_in_P1, match_idx_to_viz) are the 0-based numpy indices, read *)
(* with At/Take below, which implement numpy's bounds check and negative   *)
(* index wrap-around.  A raised exception is a record with ok = FALSE.     *)
(* Point maps are single-row images (H = 1), a 3D point is a triple of     *)
(* integers, and the focal and pose of view i are the opaque tokens        *)
(* <<"focal", i>> and <<"pose", i>>: the script never looks inside them.   *)
(***************************************************************************)
EXTENDS Integers, Sequences, FiniteSets, TLC

VARIABLES
    pc,                 \* position of the script
    fault,              \* "none", or the stage whose exception ended the run
    error,              \* "none", or the class of that exception
    ran,                \* the pipeline stages started so far, in order
    image_list,         \* number of paths returned by get_image_list
    scene,              \* output of the global aligner
    poses_df,           \* rows of the DataFrame
    csv,                \* the file poses.csv
    pts2d_list,         \* per view: pixel coordinates kept by the mask
    pts3d_list,         \* per view: 3D points kept by the mask
    reciprocal_in_P2,   \* boolean mask over pts3d_list[1]
    nn2_in_P1,          \* per point of view 1: index of its nearest in view 0
    num_matches,
    matches_im0,
    matches_im1,
    match_idx_to_viz,
    viz_matches_im0,
    viz_matches_im1,
    plotted             \* the lines handed to pl.plot

vars == << pc, fault, error, ran, image_list, scene, poses_df, csv, pts2d_list,
           pts3d_list, reciprocal_in_P2, nn2_in_P1, num_matches, matches_im0,
           matches_im1, match_idx_to_viz, viz_matches_im0,
           viz_matches_im1, plotted >>

matchVars == << pts2d_list, pts3d_list, reciprocal_in_P2, nn2_in_P1,
                num_matches, matches_im0, matches_im1 >>

vizVars == << match_idx_to_viz, viz_matches_im0, viz_matches_im1,
              plotted >>

(***************************************************************************)
(* Bounds of the model.                                                    *)
(***************************************************************************)
MaxViews == 3       \* most images found in the directory
MaxPix == 2         \* most pixels of one point map
MaxCount == 100     \* most matches handed to the sampler on its own

\* n_viz = 10
n_viz == 10

\* The 3D points a pixel of a point map may hold: two close to each other and
\* one far from both.
Pts3 == { <<0, 0, 0>>, <<1, 0, 0>>, <<0, 3, 0>> }

\* The stages of the pipeline, in the order of the script.
StageOrder == << "discovery", "reconstruction", "alignment", "export",
                 "matching", "sampling", "visualization" >>

(***************************************************************************)
(* numpy array access.                                                     *)
(***************************************************************************)
\* A sequence given as a function, laid out as a tuple (the same value).
Array(f) == SubSeq(f, 1, Len(f))

\* arr[i] for a numpy integer i: in bounds iff -len <= i < len; a negative
\* index counts from the end.
InBounds(arr, i) == -Len(arr) <= i /\ i < Len(arr)

At(arr, i) == IF i >= 0 THEN arr[i + 1] ELSE arr[Len(arr) + i + 1]

\* arr[idx] for an integer index array idx: IndexError if any index is out
\* of bounds, else the elements in the order of idx.
Take(arr, idx) ==
    IF \A j \in 1..Len(idx) : InBounds(arr, idx[j])
    THEN [ok |-> TRUE, val |-> Array([j \in 1..Len(idx) |-> At(arr, idx[j])])]
    ELSE [ok |-> FALSE, val |-> << >>]

\* The indices, ascending, at which the mask is true.
TrueIndices(mask) == SelectSeq([j \in 1..Len(mask) |-> j], LAMBDA j : mask[j])

\* The elements of arr where the mask is true, in array order.
SelectTrue(arr, mask) ==
    LET idx == TrueIndices(mask)
    IN  Array([k \in 1..Len(idx) |-> arr[idx[k]]])

\* arr[mask] for a boolean mask: IndexError unless the mask is as long as
\* the array, else the elements where the mask is true, in array order.
MaskSelect(arr, mask) ==
    IF Len(mask) = Len(arr)
    THEN [ok |-> TRUE, val |-> SelectTrue(arr, mask)]
    ELSE [ok |-> FALSE, val |-> << >>]

\* xy_grid(W, H) flattened row-major: the pixel coordinates (x, y).
xy_grid(W, H) ==
    Array([p \in 1..(W * H) |-> << (p - 1) % W, (p - 1) \div W >>])

\* mask.sum()
CountTrue(mask) == Cardinality({j \in 1..Len(mask) : mask[j]})

(***************************************************************************)
(* The reciprocal matcher (dust3r.utils.geometry.find_reciprocal_matches). *)
(***************************************************************************)
Dist2(p, q) == (p[1] - q[1]) * (p[1] - q[1]) + (p[2] - q[2]) * (p[2] - q[2])
               + (p[3] - q[3]) * (p[3] - q[3])

MinOf(S) == CHOOSE x \in S : \A y \in S : x <= y

\* 0-based index of the point of Q nearest to p: the least squared distance
\* is found first, then the lowest index that attains it wins.  0 when Q is
\* empty.
NearestIn(p, Q) ==
    IF Len(Q) = 0 THEN 0
    ELSE LET dmin == MinOf({Dist2(p, Q[m]) : m \in 1..Len(Q)})
         IN  MinOf({j \in 1..Len(Q) : Dist2(p, Q[j]) = dmin}) - 1

\* Returns (reciprocal_in_P2, nn2_in_P1, number of matches).
find_reciprocal_matches(P1, P2) ==
    LET nn1_in_P2 == Array([a \in 1..Len(P1) |-> NearestIn(P1[a], P2)])
        nn2 == Array([b \in 1..Len(P2) |-> NearestIn(P2[b], P1)])
        recip == Array([b \in 1..Len(P2) |->
                          /\ Len(P1) > 0
                          /\ nn1_in_P2[nn2[b] + 1] = b - 1])
    IN  [reciprocal_in_P2 |-> recip, nn2_in_P1 |-> nn2,
         num_matches |-> CountTrue(recip)]

(***************************************************************************)
(* The script.                                                             *)
(***************************************************************************)
NoScene == [N |-> 0, focals |-> << >>, poses |-> << >>, views |-> << >>]
NoFile == [exists |-> FALSE, rows |-> << >>]

\* One view of the aligned scene: its image width, its point map and its
\* confidence mask.
Views ==
    UNION { [W : {w}, pts3d : [1..w -> Pts3], conf : [1..w -> BOOLEAN]] :
            w \in 1..MaxPix }

Init ==
    /\ pc = "load_model"
    /\ fault = "none"
    /\ error = "none"
    /\ ran = << >>
    /\ image_list = 0
    /\ scene = NoScene
    /\ poses_df = << >>
    /\ csv = NoFile
    /\ pts2d_list = << >>
    /\ pts3d_list = << >>
    /\ reciprocal_in_P2 = << >>
    /\ nn2_in_P1 = << >>
    /\ num_matches = 0
    /\ matches_im0 = << >>
    /\ matches_im1 = << >>
    /\ match_idx_to_viz = << >>
    /\ viz_matches_im0 = << >>
    /\ viz_matches_im1 = << >>
    /\ plotted = << >>

\* An uncaught exception in `stage`: the interpreter exits, nothing later runs.
Raise(stage, exc) ==
    /\ pc' = "aborted"
    /\ fault' = stage
    /\ error' = exc

\* model = AsymmetricCroCo3DStereo.from_pretrained(model_name).to(device)
LoadModel ==
    /\ pc = "load_model"
    /\ pc' = "discover"
    /\ UNCHANGED << fault, error, ran, image_list, scene, poses_df, csv, matchVars, vizVars >>

LoadModelFail ==
    /\ pc = "load_model"
    /\ Raise("load_model", "AdapterError")
    /\ UNCHANGED << ran, image_list, scene, poses_df, csv, matchVars, vizVars >>

\* image_list = get_image_list(images_path): every .png under the directory.
Discover ==
    /\ pc = "discover"
    /\ \E n \in 0..MaxViews : image_list' = n
    /\ ran' = Append(ran, "discovery")
    /\ pc' = "reconstruct"
    /\ UNCHANGED << fault, error, scene, poses_df, csv, matchVars, vizVars >>

\* load_images, make_pairs, inference: pairs need at least two images.
Reconstruct ==
    /\ pc = "reconstruct"
    /\ image_list >= 2
    /\ ran' = Append(ran, "reconstruction")
    /\ pc' = "align"
    /\ UNCHANGED << fault, error, image_list, scene, poses_df, csv, matchVars, vizVars >>

ReconstructFail ==
    /\ pc = "reconstruct"
    /\ ran' = Append(ran, "reconstruction")
    /\ Raise("reconstruction", "AdapterError")
    /\ UNCHANGED << image_list, scene, poses_df, csv, matchVars, vizVars >>

\* global_aligner, compute_global_alignment and the scene getters: one focal,
\* pose, point map and mask per image.  Only views 0 and 1 are read later.
Align ==
    /\ pc = "align"
    /\ \E v0 \in Views, v1 \in Views :
         scene' = [N |-> image_list,
                   focals |-> [i \in 1..image_list |-> << "focal", i - 1 >>],
                   poses |-> [i \in 1..image_list |-> << "pose", i - 1 >>],
                   views |-> << v0, v1 >>]
    /\ ran' = Append(ran, "alignment")
    /\ pc' = "export_df"
    /\ UNCHANGED << fault, error, image_list, poses_df, csv, matchVars, vizVars >>

\* AlignFail with the exception swallowed: the script goes on to the export.
AlignFail_Swallowed ==
    /\ pc = "align"
    /\ ran' = Append(ran, "alignment")
    /\ pc' = "export_df"
    /\ fault' = "alignment"
    /\ error' = "AdapterError"
    /\ UNCHANGED << image_list, scene, poses_df, csv, matchVars, vizVars >>

AlignFail ==
    /\ pc = "align"
    /\ ran' = Append(ran, "alignment")
    /\ Raise("alignment", "AdapterError")
    /\ UNCHANGED << image_list, scene, poses_df, csv, matchVars, vizVars >>

\* pd.DataFrame({"img": [f"img{i}" for i in range(2)], "focal": focals,
\* "pose": poses}): the columns must all have the length of the img column.
DataFrame(img, focals, poses) ==
    IF Len(focals) = Len(img) /\ Len(poses) = Len(img)
    THEN [ok |-> TRUE,
          val |-> [i \in 1..Len(img) |->
                     [img |-> img[i], focal |-> focals[i], pose |-> poses[i]]]]
    ELSE [ok |-> FALSE, val |-> << >>]

ImgColumn == [i \in 1..2 |-> << "img", i - 1 >>]

ExportDF ==
    /\ pc = "export_df"
    /\ DataFrame(ImgColumn, scene.focals, scene.poses).ok
    /\ poses_df' = DataFrame(ImgColumn, scene.focals, scene.poses).val
    /\ ran' = Append(ran, "export")
    /\ pc' = "to_csv_open"
    /\ UNCHANGED << fault, error, image_list, scene, csv, matchVars, vizVars >>

ExportDFFail ==
    /\ pc = "export_df"
    /\ ~ DataFrame(ImgColumn, scene.focals, scene.poses).ok
    /\ ran' = Append(ran, "export")
    /\ Raise("export", "ValueError")
    /\ UNCHANGED << image_list, scene, poses_df, csv, matchVars, vizVars >>

\* poses_df.to_csv("poses.csv", index=False): the file is opened for writing
\* in place (created or truncated), the header and then the rows are written
\* to it, and it is closed.
ToCsvOpen ==
    /\ pc = "to_csv_open"
    /\ csv' = [exists |-> TRUE, rows |-> << >>]
    /\ pc' = "to_csv_write"
    /\ UNCHANGED << fault, error, ran, image_list, scene, poses_df, matchVars, vizVars >>

ToCsvWriteRow ==
    /\ pc = "to_csv_write"
    /\ Len(csv.rows) < Len(poses_df)
    /\ csv' = [csv EXCEPT !.rows = Append(@, poses_df[Len(@) + 1])]
    /\ UNCHANGED << pc, fault, error, ran, image_list, scene, poses_df, matchVars, vizVars >>

ToCsvClose ==
    /\ pc = "to_csv_write"
    /\ Len(csv.rows) = Len(poses_df)
    /\ pc' = "match"
    /\ UNCHANGED << fault, error, ran, image_list, scene, poses_df, csv, matchVars, vizVars >>

\* An OSError from open, write or close (no permission, disk full): what is
\* already in the file stays there.
ToCsvFail ==
    /\ pc \in {"to_csv_open", "to_csv_write"}
    /\ Raise("export", "OSError")
    /\ UNCHANGED << ran, image_list, scene, poses_df, csv, matchVars, vizVars >>


(***************************************************************************)
(* Matching: lines 88-100.                                                 *)
(***************************************************************************)
\* xy_grid(*imgs[i].shape[:2][::-1])[conf_i]
FilterPts2d(view) == MaskSelect(xy_grid(view.W, 1), view.conf).val

\* FilterPts3d with the mask inverted.
FilterPts3d_Inverted(view) ==
    MaskSelect(view.pts3d, [j \in 1..Len(view.conf) |-> ~ view.conf[j]]).val

\* pts3d[i].detach().cpu().numpy()[conf_i]
FilterPts3d(view) == MaskSelect(view.pts3d, view.conf).val

\* MatchesIm1 with the mask inverted.
MatchesIm1_Inverted(pts2d1, recip) ==
    MaskSelect(pts2d1, [j \in 1..Len(recip) |-> ~ recip[j]])

\* matches_im1 = pts2d_list[1][reciprocal_in_P2]
MatchesIm1(pts2d1, recip) == MaskSelect(pts2d1, recip)

\* MatchesIm0 without the step through nn2_in_P1.
MatchesIm0_NoNN(pts2d0, nn2, recip) == MaskSelect(pts2d0, recip)

\* matches_im0 = pts2d_list[0][nn2_in_P1][reciprocal_in_P2]
MatchesIm0(pts2d0, nn2, recip) ==
    IF Take(pts2d0, nn2).ok
    THEN MaskSelect(Take(pts2d0, nn2).val, recip)
    ELSE [ok |-> FALSE, val |-> << >>]

\* Everything lines 88-100 compute from the scene.
MatchStage(sc) ==
    LET p2 == << FilterPts2d(sc.views[1]), FilterPts2d(sc.views[2]) >>
        p3 == << FilterPts3d(sc.views[1]), FilterPts3d(sc.views[2]) >>
        r == find_reciprocal_matches(p3[1], p3[2])
        m1 == MatchesIm1(p2[2], r.reciprocal_in_P2)
        m0 == MatchesIm0(p2[1], r.nn2_in_P1, r.reciprocal_in_P2)
    IN  [pts2d_list |-> p2, pts3d_list |-> p3,
         reciprocal_in_P2 |-> r.reciprocal_in_P2, nn2_in_P1 |-> r.nn2_in_P1,
         num_matches |-> r.num_matches,
         ok |-> m1.ok /\ m0.ok,
         matches_im1 |-> m1.val, matches_im0 |-> m0.val]

\* The assignments of lines 88-98, which precede the two extractions.
MatchAssign(m) ==
    /\ pts2d_list' = m.pts2d_list
    /\ pts3d_list' = m.pts3d_list
    /\ reciprocal_in_P2' = m.reciprocal_in_P2
    /\ nn2_in_P1' = m.nn2_in_P1
    /\ num_matches' = m.num_matches

Match ==
    /\ pc = "match"
    /\ MatchStage(scene).ok
    /\ MatchAssign(MatchStage(scene))
    /\ matches_im1' = MatchStage(scene).matches_im1
    /\ matches_im0' = MatchStage(scene).matches_im0
    /\ ran' = Append(ran, "matching")
    /\ pc' = "sample"
    /\ UNCHANGED << fault, error, image_list, scene, poses_df, csv, vizVars >>

\* An IndexError in one of the two extractions.
MatchFail ==
    /\ pc = "match"
    /\ ~ MatchStage(scene).ok
    /\ MatchAssign(MatchStage(scene))
    /\ ran' = Append(ran, "matching")
    /\ Raise("matching", "IndexError")
    /\ UNCHANGED << image_list, scene, poses_df, csv, matches_im0, matches_im1,
                    vizVars >>

(***************************************************************************)
(* Sampling: lines 106-113.                                                *)
(***************************************************************************)
\* RoundHalfEven without the rounding: the quotient cut down to an integer.
RoundDown(n, d) == n \div d

\* np.round of the exact quotient n / d, d > 0: to the nearest integer, a
\* half to the even one.
RoundHalfEven(n, d) ==
    LET q == n \div d
        r == n - q * d
    IN  IF 2 * r < d THEN q
        ELSE IF 2 * r > d THEN q + 1
        ELSE IF q % 2 = 0 THEN q ELSE q + 1

\* np.round(np.linspace(0, stop, num)).astype(int): element i (from 0) of
\* the linspace is i * stop / (num - 1).
RoundLinspace(stop, num) ==
    Array([i \in 1..num |-> RoundHalfEven((i - 1) * stop, num - 1)])

MatchIdxToViz(count) == RoundLinspace(count - 1, n_viz)

Sample ==
    /\ pc = "sample"
    /\ match_idx_to_viz' = MatchIdxToViz(num_matches)
    /\ Take(matches_im0, match_idx_to_viz').ok
    /\ Take(matches_im1, match_idx_to_viz').ok
    /\ viz_matches_im0' = Take(matches_im0, match_idx_to_viz').val
    /\ viz_matches_im1' = Take(matches_im1, match_idx_to_viz').val
    /\ ran' = Append(ran, "sampling")
    /\ pc' = "visualize"
    /\ UNCHANGED << fault, error, image_list, scene, poses_df, csv, matchVars, plotted >>

\* An IndexError in matches_im0[match_idx_to_viz] or matches_im1[...].
SampleFail ==
    /\ pc = "sample"
    /\ match_idx_to_viz' = MatchIdxToViz(num_matches)
    /\ ~ (/\ Take(matches_im0, match_idx_to_viz').ok
          /\ Take(matches_im1, match_idx_to_viz').ok)
    /\ ran' = Append(ran, "sampling")
    /\ Raise("sampling", "IndexError")
    /\ UNCHANGED << image_list, scene, poses_df, csv, matchVars,
                    viz_matches_im0, viz_matches_im1, plotted >>

(***************************************************************************)
(* Visualization: lines 115-142.                                           *)
(***************************************************************************)
\* The loop over range(n_viz): one line per sampled pair, the point of
\* view 1 shifted right by the width W0 of view 0.
PlotLines(v0, v1, W0) ==
    [i \in 1..n_viz |-> << v0[i][1], v0[i][2], v1[i][1] + W0, v1[i][2] >>]

Visualize ==
    /\ pc = "visualize"
    /\ ran' = Append(ran, "visualization")
    /\ IF Len(viz_matches_im0) >= n_viz /\ Len(viz_matches_im1) >= n_viz
       THEN /\ plotted' = PlotLines(viz_matches_im0, viz_matches_im1,
                                    scene.views[1].W)
            /\ pc' = "done"
            /\ UNCHANGED << fault, error >>
       ELSE /\ Raise("visualization", "IndexError")
            /\ UNCHANGED plotted
    /\ UNCHANGED << image_list, scene, poses_df, csv, matchVars,
                    match_idx_to_viz, viz_matches_im0, viz_matches_im1 >>

Next ==
    \/ LoadModel
    \/ LoadModelFail
    \/ Discover
    \/ Reconstruct
    \/ ReconstructFail
    \/ Align
    \/ AlignFail
    \/ ExportDF
    \/ ExportDFFail
    \/ ToCsvOpen
    \/ ToCsvWriteRow
    \/ ToCsvClose
    \/ ToCsvFail
    \/ Match
    \/ MatchFail
    \/ Sample
    \/ SampleFail
    \/ Visualize

Spec == Init /\ [][Next]_vars

(***************************************************************************)
(* The sampler on its own: the runs that have just finished matching two   *)
(* views holding the same c distinct, confident points, which match one to *)
(* one, so that num_matches = c.                                           *)
(***************************************************************************)
LineView(c) ==
    IF c = 0
    THEN [W |-> 1, pts3d |-> << <<0, 0, 0>> >>, conf |-> << FALSE >>]
    ELSE [W |-> c, pts3d |-> [i \in 1..c |-> << i, 0, 0 >>],
          conf |-> [i \in 1..c |-> TRUE]]

LineScene(c) ==
    [N |-> 2,
     focals |-> [i \in 1..2 |-> << "focal", i - 1 >>],
     poses |-> [i \in 1..2 |-> << "pose", i - 1 >>],
     views |-> << LineView(c), LineView(c) >>]

SamplerInit ==
    \E c \in 0..MaxCount :
        LET m == MatchStage(LineScene(c))
        IN  /\ pc = "sample"
            /\ fault = "none"
            /\ error = "none"
            /\ ran = SubSeq(StageOrder, 1, 5)
            /\ image_list = 2
            /\ scene = LineScene(c)
            /\ poses_df = DataFrame(ImgColumn, scene.focals, scene.poses).val
            /\ csv = [exists |-> TRUE, rows |-> poses_df]
            /\ pts2d_list = m.pts2d_list
            /\ pts3d_list = m.pts3d_list
            /\ reciprocal_in_P2 = m.reciprocal_in_P2
            /\ nn2_in_P1 = m.nn2_in_P1
            /\ num_matches = m.num_matches
            /\ matches_im0 = m.matches_im0
            /\ matches_im1 = m.matches_im1
            /\ match_idx_to_viz = << >>
            /\ viz_matches_im0 = << >>
            /\ viz_matches_im1 = << >>
            /\ plotted = << >>

SamplerNext ==
    \/ Sample
    \/ SampleFail
    \/ Visualize

SamplerSpec == SamplerInit /\ [][SamplerNext]_vars

(***************************************************************************)
(* Properties.                                                             *)
(***************************************************************************)
\* The matching stage has run to its end without an exception.
Matched == Len(ran) >= 5 /\ fault # "matching"

\* The 1-based position of pixel x in a list of distinct pixels.
IndexOf(seq, x) == CHOOSE j \in 1..Len(seq) : seq[j] = x

\* Q[j] is the nearest point of Q to p under the tie-break rule: no point of
\* Q is strictly closer, and none at the same distance has a lower index.
IsNearest(p, Q, j) ==
    \A m \in 1..Len(Q) :
        /\ Dist2(p, Q[j]) <= Dist2(p, Q[m])
        /\ (Dist2(p, Q[j]) = Dist2(p, Q[m]) => j <= m)

\* The (a, b) pairs the run has output, as pairs of pixels.
OutputPairs ==
    { << matches_im0[i], matches_im1[i] >> : i \in 1..Len(matches_im1) }

\* The pairs output by the matching stage applied to the views in the other
\* order; none if that run ends in an exception.
SwappedPairs ==
    LET r == MatchStage([scene EXCEPT !.views = << scene.views[2], scene.views[1] >>])
    IN  IF r.ok
        THEN { << r.matches_im0[i], r.matches_im1[i] >> : i \in 1..Len(r.matches_im1) }
        ELSE { }

\* C1: every output pair (a, b) is a mutual nearest neighbour: b is the
\* nearest point of B to a and a is the nearest point of A to b, ties going
\* to the lowest index.
C1_Reciprocity ==
    Matched =>
        /\ Len(matches_im0) = Len(matches_im1)
        /\ \A i \in 1..Len(matches_im1) :
             /\ \E a \in 1..Len(pts2d_list[1]) : pts2d_list[1][a] = matches_im0[i]
             /\ \E b \in 1..Len(pts2d_list[2]) : pts2d_list[2][b] = matches_im1[i]
             /\ LET a == IndexOf(pts2d_list[1], matches_im0[i])
                    b == IndexOf(pts2d_list[2], matches_im1[i])
                IN  /\ IsNearest(pts3d_list[1][a], pts3d_list[2], b)
                    /\ IsNearest(pts3d_list[2][b], pts3d_list[1], a)

\* A run with two points kept in each view, of which only one pair matched,
\* and that pair not the two first points.
C1_Witness ==
    /\ pc = "sample"
    /\ Len(pts3d_list[1]) = 2
    /\ Len(pts3d_list[2]) = 2
    /\ num_matches = 1
    /\ matches_im0 # << pts2d_list[1][1] >>

\* C2: (a, b) is output by matching(A, B) exactly when (b, a) is output by
\* matching(B, A).
C2_Symmetry ==
    Len(ran) >= 5 =>
        /\ Len(matches_im0) = Len(matches_im1)
        /\ OutputPairs = { << q[2], q[1] >> : q \in SwappedPairs }

\* A run on two different point sets where a pair matched and a point of
\* each side stayed unmatched.
C2_Witness ==
    /\ pc = "sample"
    /\ pts3d_list[1] # pts3d_list[2]
    /\ num_matches = 1
    /\ Len(pts3d_list[1]) = 2
    /\ Len(pts3d_list[2]) = 2
    /\ SwappedPairs # { }

\* Both views non-empty with all-true masks, and no point of view 0 within
\* distance 1 of a point of view 1.
FarApart ==
    /\ scene.N >= 2
    /\ \A v \in 1..2 : \A j \in 1..scene.views[v].W : scene.views[v].conf[j]
    /\ \A a \in 1..scene.views[1].W, b \in 1..scene.views[2].W :
         Dist2(scene.views[1].pts3d[a], scene.views[2].pts3d[b]) > 1

\* C3 as stated: two non-empty, fully confident point sets with no
\* near-coincident points give num_matches = 0.
C3_Original ==
    (Len(ran) >= 5 /\ FarApart) => num_matches = 0

\* C3 as amended: two non-empty, fully confident point sets give at least one
\* match (and at most as many as the smaller set holds), also when no point
\* of one is near a point of the other.
C3_AtLeastOneMatch ==
    (Len(ran) >= 5 /\ FarApart) =>
        /\ num_matches >= 1
        /\ num_matches <= Len(pts3d_list[1])
        /\ num_matches <= Len(pts3d_list[2])

C3_Witness ==
    /\ pc = "sample"
    /\ FarApart
    /\ Len(pts3d_list[2]) = 2
    /\ num_matches = 1

\* C4: when no point of view 0 or of view 1 survives the confidence filter,
\* the run raises no exception: the matcher gives zero matches and the run
\* goes on through sampling to the visualization.
C4_DegenerateNoFault ==
    (Len(ran) >= 5 /\ (pts3d_list[1] = << >> \/ pts3d_list[2] = << >>)) =>
        /\ num_matches = 0
        /\ fault = "none"

\* C5: with fewer matches than n_viz the sampler raises no exception and
\* returns exactly min(n_viz, count) indices, each a valid index.
C5_DegradesToMin ==
    (Len(ran) >= 6 /\ num_matches < n_viz) =>
        /\ fault = "none"
        /\ Len(match_idx_to_viz) = num_matches
        /\ \A i \in 1..Len(match_idx_to_viz) :
             0 <= match_idx_to_viz[i] /\ match_idx_to_viz[i] < num_matches

\* C6: with count >= n_viz matches the sampler returns exactly n_viz
\* indices, the i-th (from 0) an integer nearest to i * (count - 1) /
\* (n_viz - 1): non-decreasing, from 0 to count - 1, all within
\* [0, count - 1]; count = 10 gives 0..9 and count = 100 gives 10 indices
\* from 0 to 99.  The last conjunct states the same of the rounded linspace
\* for every smaller sample size k >= 2.
C6_EvenlySpaced ==
    (Len(ran) >= 6 /\ num_matches >= n_viz) =>
        /\ fault = "none"
        /\ Len(match_idx_to_viz) = n_viz
        /\ \A i \in 1..n_viz :
             LET d == match_idx_to_viz[i] * (n_viz - 1) - (i - 1) * (num_matches - 1)
             IN  /\ 2 * d <= n_viz - 1
                 /\ -(n_viz - 1) <= 2 * d
                 /\ 0 <= match_idx_to_viz[i]
                 /\ match_idx_to_viz[i] <= num_matches - 1
        /\ \A i \in 1..(n_viz - 1) : match_idx_to_viz[i] <= match_idx_to_viz[i + 1]
        /\ match_idx_to_viz[1] = 0
        /\ match_idx_to_viz[n_viz] = num_matches - 1
        /\ (num_matches = n_viz => match_idx_to_viz = [i \in 1..n_viz |-> i - 1])
        /\ Len(viz_matches_im0) = n_viz
        /\ Len(viz_matches_im1) = n_viz
        /\ \A k \in 2..n_viz :
             LET idx == RoundLinspace(num_matches - 1, k)
             IN  /\ Len(idx) = k
                 /\ idx[1] = 0
                 /\ idx[k] = num_matches - 1
                 /\ \A i \in 1..(k - 1) : idx[i] <= idx[i + 1]
                 /\ \A i \in 1..k :
                      /\ 2 * (idx[i] * (k - 1) - (i - 1) * (num_matches - 1)) <= k - 1
                      /\ -(k - 1) <= 2 * (idx[i] * (k - 1) - (i - 1) * (num_matches - 1))

C6_Witness ==
    /\ pc = "visualize"
    /\ num_matches = 100
    /\ match_idx_to_viz = << 0, 11, 22, 33, 44, 55, 66, 77, 88, 99 >>

\* The table of N rows, one per view, in view-id order.
FullTable ==
    [i \in 1..scene.N |->
        [img |-> << "img", i - 1 >>, focal |-> scene.focals[i],
         pose |-> scene.poses[i]]]

\* to_csv is between its open and its close.
Writing == pc \in {"to_csv_open", "to_csv_write"}

\* C7: for any number N of aligned views, once the export step has ended
\* (other than by an I/O error of the write) poses.csv holds exactly N rows,
\* one per view, in ascending view-id order.
C7_ExportCompleteness ==
    (Len(ran) >= 4 /\ ~ Writing /\ error # "OSError") =>
        /\ csv.exists
        /\ csv.rows = FullTable

\* C8: once the export step has started and to_csv has returned or raised,
\* poses.csv either holds all N rows or does not exist.
C8_AllOrNothing ==
    (Len(ran) >= 4 /\ ~ Writing) =>
        \/ ~ csv.exists
        \/ csv.rows = FullTable

\* C9: the stages start in the order discovery, reconstruction, alignment,
\* export, matching, sampling, visualization, one after the other; a stage
\* that raises is the last one to run; a run whose alignment failed has
\* written no poses.csv and has not reached export or visualization.
C9_StageOrder ==
    /\ Len(ran) <= Len(StageOrder)
    /\ ran = SubSeq(StageOrder, 1, Len(ran))
    /\ (fault # "none" =>
          /\ pc = "aborted"
          /\ (fault = "load_model" \/ ran[Len(ran)] = fault))
    /\ (pc = "aborted" => fault # "none")
    /\ (fault = "alignment" => ~ csv.exists /\ poses_df = << >> /\ plotted = << >>)
    /\ (csv.exists => Len(ran) >= 4 /\ fault \notin {"discovery", "reconstruction", "alignment"})
    /\ (plotted # << >> => ran = StageOrder /\ fault = "none")

C9_Witness ==
    /\ pc = "aborted"
    /\ fault = "alignment"
    /\ ran = SubSeq(StageOrder, 1, 3)

\* The output pairs are listed by ascending index of the point of view v.
AscendingIn(v, matches) ==
    \A i \in 1..(Len(matches) - 1) :
        IndexOf(pts2d_list[v], matches[i]) < IndexOf(pts2d_list[v], matches[i + 1])

=============================================================================
